---- MODULE Spec2Model ----
(***************************************************************************)
(* voice2email (src/app.py): a Streamlit script that is re-executed from   *)
(* top to bottom on every user interaction or forced rerun.  One session   *)
(* is modelled: its st.session_state keys, the values held by the widgets, *)
(* the calendar day, and the position of the running script at each of the *)
(* three blocking client calls (transcription, summarization, mail).       *)
(*                                                                         *)
(* Python values are sequences of one-character strings; None and a key    *)
(* that is absent from st.session_state are the two reserved sequences     *)
(* below, which no text, hash or recording can equal.                      *)
(***************************************************************************)
EXTENDS Integers, Sequences, FiniteSets, TLC

\* ------------------------------------------------------------- bounds
MaxLen == 2        \* longest text a client returns

\* ---------------------------------------------------------- constants
expiration_date == 1

\* the calendar days of the model: the expiration date and the day after
Days == {expiration_date, expiration_date + 1}

PASS_KEY == <<"p">>

BREVO_SENDER == <<"s">>

subject == <<"[auto] voice memo summary">>

\* ------------------------------------------------------ Python values
None == <<"None">>

Absent == <<"absent">>

Whitespace == {" "}

Chars == {" ", "a"}

SeqsUpTo(S, n) == UNION {[1..k -> S] : k \in 0..n}

Texts == SeqsUpTo(Chars, MaxLen)

RECURSIVE lstrip(_)
lstrip(s) ==
    IF s # <<>> /\ Head(s) \in Whitespace THEN lstrip(Tail(s)) ELSE s

RECURSIVE rstrip(_)
rstrip(s) ==
    IF s # <<>> /\ s[Len(s)] \in Whitespace
    THEN rstrip(SubSeq(s, 1, Len(s) - 1))
    ELSE s

\* str.strip()
strip(s) == rstrip(lstrip(s))

\* truth value of a str or None
Truthy(v) == v # None /\ v # <<>>

\* ------------------------------------------------------- fingerprint
Samples == {"s1", "s2"}

\* the clips the capture widget can hold: the empty clip and two recordings
AudioSegments == {<<>>} \cup {<<x>> : x \in Samples}

\* AudioSegment.export(buf, format="wav"): a header, then the samples
ExportWav(seg) == <<"RIFF">> \o seg

HexOf(b) ==
    CASE b = "RIFF" -> "52"
      [] b = "s1" -> "01"
      [] b = "s2" -> "02"

\* hashlib.sha256(bytes).hexdigest(): distinct byte strings, distinct digests
Sha256Hex(bytes) == [i \in 1..Len(bytes) |-> HexOf(bytes[i])]

get_audio_hash(audio) == Sha256Hex(ExportWav(audio))

Recordings == {a \in AudioSegments : Len(a) > 0}

Hashes == {get_audio_hash(a) : a \in Recordings}

\* ------------------------------------------------------------ clients
\* What the speech-to-text service does with one request: it raises, or it
\* returns a text.
TranscriptionOutcomes ==
    {[ok |-> FALSE, text |-> <<>>]} \cup {[ok |-> TRUE, text |-> t] : t \in Texts}

\* What the chat-completion service does with one request: it raises, or it
\* returns a message whose content is a text or None.
SummarizationOutcomes ==
    {[ok |-> FALSE, text |-> <<>>]}
        \cup {[ok |-> TRUE, text |-> t] : t \in Texts \cup {None}}

\* What the SMTP session does: it raises (FALSE) or delivers (TRUE).
MailOutcomes == BOOLEAN

\* a transcribe_audio whose except branch returns the error text
transcribe_audio_ErrorText(outcome) ==
    IF outcome.ok THEN outcome.text ELSE <<"a">>

\* transcribe_audio: transcript.text, or "" from the except branch
transcribe_audio(outcome) == IF outcome.ok THEN outcome.text ELSE <<>>

\* summarize_text: response.choices[0].message.content, or "" from the
\* except branch
summarize_text(outcome) == IF outcome.ok THEN outcome.text ELSE <<>>

TranscriptionCall(audio) ==
    [client |-> "transcription", arg |-> ExportWav(audio), to |-> <<>>,
     subject |-> <<>>, sender |-> <<>>, envelope_from |-> <<>>,
     ret |-> "pending", val |-> <<>>]

SummarizationCall(text) ==
    [client |-> "summarization", arg |-> text, to |-> <<>>,
     subject |-> <<>>, sender |-> <<>>, envelope_from |-> <<>>,
     ret |-> "pending", val |-> <<>>]

\* a send_email that takes subject and body in the other order
send_email_SwappedArgs(to_address, subj, body, from_address) ==
    [client |-> "mail", arg |-> subj, to |-> to_address,
     subject |-> body, sender |-> from_address,
     envelope_from |-> BREVO_SENDER, ret |-> "pending",
     val |-> <<>>]

\* send_email(to_address, subject, body, from_address): the message built and
\* handed to server.sendmail
send_email(to_address, subj, body, from_address) ==
    [client |-> "mail", arg |-> body, to |-> to_address,
     subject |-> subj, sender |-> from_address,
     envelope_from |-> BREVO_SENDER, ret |-> "pending",
     val |-> <<>>]

\* the last call of the log has returned (ok, with a value) or raised (error)
Returned(log, r, v) ==
    [log EXCEPT ![Len(log)].ret = r, ![Len(log)].val = v]

\* -------------------------------------------------------------- state
VARIABLES
    password_correct,   \* st.session_state.password_correct
    transcribed_text,   \* st.session_state.transcribed_text
    summary_text,       \* st.session_state.summary_text
    last_audio_hash,    \* st.session_state.last_audio_hash
    processing_done,    \* st.session_state.processing_done
    password,           \* value of the password text_input
    button,             \* the login button was clicked for this run
    email_to,           \* value of the address text_input
    audio_segment,      \* value of the audiorecorder widget
    today,              \* the calendar day in JST
    pc,                 \* where the script is: idle, run, or blocked in a call
    rerun,              \* st.rerun() was called and the rerun is due
    view,               \* what the last run rendered: login, main, expired
    current_hash,       \* the run's current_hash (None: no recording)
    calls,              \* the client calls of the current run, in order
    msgs,               \* the messages the current run has shown
    status,             \* running, completed, aborted (uncaught), stopped
    transcribed,        \* fingerprints a transcription call was made for
    mailed,             \* fingerprints a mail call was made for
    last_run,           \* the latest processing run that ended: hash, kind
    failed,             \* fingerprints with a failed or incomplete run
    secrets,            \* the options st.secrets holds
    environ,            \* the options the environment (.env included) holds
    boot,               \* lines 17-35: starting, fallback, running, crashed
    config              \* per option: where its value came from, or None

session == <<password_correct, transcribed_text, summary_text,
             last_audio_hash, processing_done>>

widgets == <<password, button, email_to, audio_segment>>

history == <<transcribed, mailed, last_run, failed>>

vars == <<password_correct, transcribed_text, summary_text, last_audio_hash,
          processing_done, password, button, email_to, audio_segment, today,
          pc, rerun, view, current_hash, calls, msgs, status, transcribed,
          mailed, last_run, failed, secrets, environ, boot, config>>

deployment == <<secrets, environ, boot, config>>

\* lines 18-24: the seven options the module reads
Options ==
    {"OPENAI_API_KEY", "PASS_KEY", "BREVO_SERVER", "BREVO_PORT",
     "BREVO_USER", "BREVO_PASSWORD", "BREVO_SENDER"}

Passwords == {<<>>, PASS_KEY, <<"x">>}

Emails == {<<>>, <<" ">>, <<"a">>}

AudioValues == {None} \cup AudioSegments

\* The session after the first run of the script: lines 38-43 have set the
\* three keys and, nobody being logged in, the login page is shown.
Init ==
    /\ password_correct = FALSE
    /\ transcribed_text = <<>>
    /\ summary_text = <<>>
    /\ last_audio_hash = Absent
    /\ processing_done = Absent
    /\ password = <<>>
    /\ button = FALSE
    /\ email_to = <<>>
    /\ audio_segment = <<>>
    /\ today \in Days
    /\ pc = "idle"
    /\ rerun = FALSE
    /\ view = "login"
    /\ current_hash = None
    /\ calls = <<>>
    /\ msgs = {}
    /\ status = "completed"
    /\ transcribed = {}
    /\ mailed = {}
    /\ last_run = [hash |-> None, kind |-> "none"]
    /\ failed = {}
    /\ secrets = Options
    /\ environ = {}
    /\ boot = "running"
    /\ config = [o \in Options |-> <<"secret">>]

\* ------------------------------------------------- the user and the clock
\* Every widget interaction makes Streamlit run the script again.  A widget
\* can be touched only if the last run rendered it, and only while no run is
\* in progress or due (the session takes no input while the script is
\* blocked in a client call).
Interactive == pc = "idle" /\ ~rerun

TypePassword ==
    /\ Interactive
    /\ view = "login"
    /\ \E p \in Passwords : password' = p
    /\ pc' = "run"
    /\ UNCHANGED <<session, button, email_to, audio_segment, today, rerun,
                   view, current_hash, calls, msgs, status, history>>
    /\ UNCHANGED deployment

ClickLogin ==
    /\ Interactive
    /\ view = "login"
    /\ button' = TRUE
    /\ pc' = "run"
    /\ UNCHANGED <<session, password, email_to, audio_segment, today, rerun,
                   view, current_hash, calls, msgs, status, history>>
    /\ UNCHANGED deployment

TypeEmail ==
    /\ Interactive
    /\ view = "main"
    /\ \E e \in Emails : email_to' = e
    /\ pc' = "run"
    /\ UNCHANGED <<session, password, button, audio_segment, today, rerun,
                   view, current_hash, calls, msgs, status, history>>
    /\ UNCHANGED deployment

\* The capture widget presents a value: nothing, an empty clip, a recording.
Record ==
    /\ Interactive
    /\ view = "main"
    /\ \E a \in AudioValues : audio_segment' = a
    /\ pc' = "run"
    /\ UNCHANGED <<session, password, button, email_to, today, rerun,
                   view, current_hash, calls, msgs, status, history>>
    /\ UNCHANGED deployment

\* The rerun that st.rerun() asked for: same widget values, no click.
ForcedRerun ==
    /\ pc = "idle"
    /\ rerun
    /\ rerun' = FALSE
    /\ pc' = "run"
    /\ UNCHANGED <<session, widgets, today, view, current_hash, calls, msgs,
                   status, history>>
    /\ UNCHANGED deployment

NextDay ==
    /\ today + 1 \in Days
    /\ today' = today + 1
    /\ UNCHANGED <<session, widgets, pc, rerun, view, current_hash, calls,
                   msgs, status, history>>
    /\ UNCHANGED deployment

\* a gate that lets every session through
Authenticated_Always(flag) == TRUE

\* line 239: which of main_app and check_password the run enters
Authenticated(flag) == flag

\* ------------------------------------------------------- check_password
\* a comparison that accepts every password
PasswordMatches_Always(entered) == TRUE

PasswordMatches(entered) == entered = PASS_KEY

check_password ==
    /\ pc = "run"
    /\ ~Authenticated(password_correct)
    /\ view' = "login"
    /\ calls' = <<>>
    /\ current_hash' = None
    /\ status' = "completed"
    /\ pc' = "idle"
    /\ button' = FALSE
    /\ IF button /\ PasswordMatches(password)
       THEN /\ password_correct' = TRUE
            /\ rerun' = TRUE
            /\ msgs' = {}
       ELSE /\ password_correct' = password_correct
            /\ rerun' = FALSE
            /\ msgs' = IF button THEN {"password_error"} ELSE {}
    /\ UNCHANGED <<transcribed_text, summary_text, last_audio_hash,
                   processing_done, password, email_to, audio_segment, today,
                   history>>
    /\ UNCHANGED deployment

\* ------------------------------------------------------------- main_app
\* a comparison turned the other way
Expired_Reversed == today < expiration_date

Expired == today > expiration_date

\* initialize_session_state, as far as last_audio_hash goes (the other two
\* keys are always present)
initialize_session_state(hash) == IF hash = Absent THEN None ELSE hash

\* a presence test without the length check
HasRecording_NoLengthCheck(audio) == audio # None

\* line 183
HasRecording(audio) == audio # None /\ Len(audio) > 0

\* a guard that takes every recording for a new one
IsNewRecording_Always(last, current) == TRUE

\* line 188
IsNewRecording(last, current) == last # current

\* a notice that is never shown
Display_Never(hash) == {}

\* lines 224-234: the two text areas, and the notice if a hash is stored
Display(hash) == IF Truthy(hash) THEN {"done_notice"} ELSE {}

\* a clear that keeps the previous result
Cleared_Kept(text) == text

\* lines 192-193: the value the two result keys get before the first call
Cleared(text) == <<>>


\* lines 154-157: past the expiration date the run stops before anything else
MainExpired ==
    /\ pc = "run"
    /\ Authenticated(password_correct)
    /\ Expired
    /\ view' = "expired"
    /\ msgs' = {"expired_error", "expired_info"}
    /\ status' = "stopped"
    /\ calls' = <<>>
    /\ current_hash' = None
    /\ pc' = "idle"
    /\ UNCHANGED <<session, widgets, today, rerun, history>>
    /\ UNCHANGED deployment

\* lines 220-222, then the display
MainNoRecording ==
    /\ pc = "run"
    /\ Authenticated(password_correct)
    /\ ~Expired
    /\ ~HasRecording(audio_segment)
    /\ view' = "main"
    /\ last_audio_hash' = initialize_session_state(last_audio_hash)
    /\ processing_done' = <<"False">>
    /\ current_hash' = None
    /\ calls' = <<>>
    /\ msgs' = Display(last_audio_hash')
    /\ status' = "completed"
    /\ pc' = "idle"
    /\ UNCHANGED <<password_correct, transcribed_text, summary_text, widgets,
                   today, rerun, history>>
    /\ UNCHANGED deployment

\* lines 183-188 with the hashes equal, then the display
MainSameRecording ==
    /\ pc = "run"
    /\ Authenticated(password_correct)
    /\ ~Expired
    /\ HasRecording(audio_segment)
    /\ ~IsNewRecording(initialize_session_state(last_audio_hash),
                       get_audio_hash(audio_segment))
    /\ view' = "main"
    /\ last_audio_hash' = initialize_session_state(last_audio_hash)
    /\ current_hash' = get_audio_hash(audio_segment)
    /\ calls' = <<>>
    /\ msgs' = Display(last_audio_hash')
    /\ status' = "completed"
    /\ pc' = "idle"
    /\ UNCHANGED <<password_correct, transcribed_text, summary_text,
                   processing_done, widgets, today, rerun, history>>
    /\ UNCHANGED deployment

\* a MainNewRecording that stores the new hash as soon as it is computed
MainNewRecording_EarlyHash ==
    /\ pc = "run"
    /\ Authenticated(password_correct)
    /\ ~Expired
    /\ HasRecording(audio_segment)
    /\ IsNewRecording(initialize_session_state(last_audio_hash),
                      get_audio_hash(audio_segment))
    /\ view' = "main"
    /\ last_audio_hash' = get_audio_hash(audio_segment)
    /\ current_hash' = get_audio_hash(audio_segment)
    /\ msgs' = {"info_new_audio"}
    /\ transcribed_text' = Cleared(transcribed_text)
    /\ summary_text' = Cleared(summary_text)
    /\ calls' = <<TranscriptionCall(audio_segment)>>
    /\ transcribed' = transcribed \cup {current_hash'}
    /\ status' = "running"
    /\ pc' = "transcribe"
    /\ UNCHANGED <<password_correct, processing_done, widgets, today, rerun,
                   mailed, last_run, failed>>
    /\ UNCHANGED deployment

\* lines 188-196: a new recording; the results are cleared and the
\* transcription request is issued
MainNewRecording ==
    /\ pc = "run"
    /\ Authenticated(password_correct)
    /\ ~Expired
    /\ HasRecording(audio_segment)
    /\ IsNewRecording(initialize_session_state(last_audio_hash),
                      get_audio_hash(audio_segment))
    /\ view' = "main"
    /\ last_audio_hash' = initialize_session_state(last_audio_hash)
    /\ current_hash' = get_audio_hash(audio_segment)
    /\ msgs' = {"info_new_audio"}
    /\ transcribed_text' = Cleared(transcribed_text)
    /\ summary_text' = Cleared(summary_text)
    /\ calls' = <<TranscriptionCall(audio_segment)>>
    /\ transcribed' = transcribed \cup {current_hash'}
    /\ status' = "running"
    /\ pc' = "transcribe"
    /\ UNCHANGED <<password_correct, processing_done, widgets, today, rerun,
                   mailed, last_run, failed>>
    /\ UNCHANGED deployment

\* a test of the raw text, without strip()
ShouldSummarize_NoStrip(trans_text) == trans_text # <<>>

\* line 200
ShouldSummarize(trans_text) == strip(trans_text) # <<>>

\* line 208: summary_text.strip() is evaluated once email_to is truthy, and
\* None has no strip(): AttributeError, which nothing catches
StripRaises(email, summary) == Truthy(email) /\ summary = None

\* a test of the summary alone, without the address
ShouldSend_NoAddressCheck(email, summary) == strip(summary) # <<>>

\* a test of the raw summary, without strip()
ShouldSend_NoStrip(email, summary) == Truthy(email) /\ summary # <<>>

\* line 208
ShouldSend(email, summary) == Truthy(email) /\ strip(summary) # <<>>

\* how a run that ended with call log `log` went: which stage raised, or
\* that the mail was skipped for want of an address, or sent
FailedKinds ==
    {"transcribe_failed", "summarize_failed", "send_failed",
     "send_skipped_no_address"}

RunKind(log) ==
    IF log[1].ret = "error" THEN "transcribe_failed"
    ELSE IF Len(log) >= 2 /\ log[2].ret = "error" THEN "summarize_failed"
    ELSE IF Len(log) = 3
         THEN (IF log[3].ret = "error" THEN "send_failed" ELSE "sent")
    ELSE IF Len(log) = 2 /\ log[2].val # None /\ strip(log[2].val) # <<>>
            /\ ~Truthy(email_to)
         THEN "send_skipped_no_address"
    ELSE "other"

\* the two run records once a run for `hash` has ended with log `log`
Ended(hash, log) ==
    /\ last_run' = [hash |-> hash, kind |-> RunKind(log)]
    /\ failed' = IF RunKind(log) \in FailedKinds
                 THEN failed \cup {hash} ELSE failed

\* a run that does not record its hash
StoredHash_Dropped(hash) == None

\* line 216: the hash the run stores
StoredHash(hash) == hash

\* lines 207-219 for a run that has shown `shown` and logged `log`
EmailStage(summary, shown, log) ==
    IF StripRaises(email_to, summary)
    THEN /\ msgs' = shown \cup {"exception"}
         /\ calls' = log
         /\ status' = "aborted"
         /\ pc' = "idle"
         /\ last_run' = [hash |-> current_hash, kind |-> "aborted"]
         /\ UNCHANGED <<last_audio_hash, rerun, mailed, failed>>
    ELSE IF ShouldSend(email_to, summary)
    THEN /\ calls' = Append(log, send_email(email_to, subject, summary,
                                            BREVO_SENDER))
         /\ mailed' = mailed \cup {current_hash}
         /\ msgs' = shown
         /\ status' = "running"
         /\ pc' = "send"
         /\ UNCHANGED <<last_audio_hash, rerun, last_run, failed>>
    ELSE /\ msgs' = shown \cup {"warn_mail_skipped"}
         /\ calls' = log
         /\ last_audio_hash' = StoredHash(current_hash)
         /\ rerun' = TRUE
         /\ status' = "completed"
         /\ pc' = "idle"
         /\ Ended(current_hash, log)
         /\ UNCHANGED mailed

\* lines 196-205: the transcription request returns or raises
TranscribeReturn ==
    /\ pc = "transcribe"
    /\ \E o \in TranscriptionOutcomes :
        LET trans_text == transcribe_audio(o)
            shown == msgs \cup (IF o.ok THEN {} ELSE {"transcribe_error"})
            log == Returned(calls, IF o.ok THEN "ok" ELSE "error", o.text)
        IN  /\ transcribed_text' = trans_text
            /\ IF ShouldSummarize(trans_text)
               THEN /\ calls' = Append(log, SummarizationCall(trans_text))
                    /\ msgs' = shown
                    /\ pc' = "summarize"
                    /\ UNCHANGED <<summary_text, last_audio_hash, rerun,
                                   status, mailed, last_run, failed>>
               ELSE /\ summary_text' = <<>>
                    /\ EmailStage(<<>>,
                                  shown \cup {"warn_transcription_failed"},
                                  log)
    /\ UNCHANGED <<password_correct, processing_done, widgets, today, view,
                   current_hash, transcribed>>
    /\ UNCHANGED deployment

\* lines 201-202, then 207-219: the summarization request returns or raises
SummarizeReturn ==
    /\ pc = "summarize"
    /\ \E o \in SummarizationOutcomes :
        LET summary == summarize_text(o)
            shown == msgs \cup (IF o.ok THEN {} ELSE {"summarize_error"})
            log == Returned(calls, IF o.ok THEN "ok" ELSE "error", o.text)
        IN  /\ summary_text' = summary
            /\ EmailStage(summary, shown, log)
    /\ UNCHANGED <<password_correct, transcribed_text, processing_done,
                   widgets, today, view, current_hash, transcribed>>
    /\ UNCHANGED deployment

\* lines 112-122, then 215-219: the SMTP session delivers or raises
SendReturn ==
    /\ pc = "send"
    /\ \E ok \in MailOutcomes :
        /\ msgs' = msgs \cup {IF ok THEN "mail_success" ELSE "mail_error"}
        /\ calls' = Returned(calls, IF ok THEN "ok" ELSE "error", <<>>)
    /\ last_audio_hash' = StoredHash(current_hash)
    /\ rerun' = TRUE
    /\ status' = "completed"
    /\ pc' = "idle"
    /\ Ended(current_hash, calls')
    /\ UNCHANGED <<password_correct, transcribed_text, summary_text,
                   processing_done, widgets, today, view, current_hash,
                   transcribed, mailed>>
    /\ UNCHANGED deployment

Next ==
    \/ TypePassword
    \/ ClickLogin
    \/ TypeEmail
    \/ Record
    \/ ForcedRerun
    \/ NextDay
    \/ check_password
    \/ MainExpired
    \/ MainNoRecording
    \/ MainSameRecording
    \/ MainNewRecording
    \/ TranscribeReturn
    \/ SummarizeReturn
    \/ SendReturn

Spec == Init /\ [][Next]_vars

\* ---------------------------------------------------- startup (lines 17-35)
\* A process that is about to load its options: any of them may be missing
\* from st.secrets and from the environment; nothing has been rendered.
InitConfig ==
    /\ password_correct = FALSE
    /\ transcribed_text = <<>>
    /\ summary_text = <<>>
    /\ last_audio_hash = Absent
    /\ processing_done = Absent
    /\ password = <<>>
    /\ button = FALSE
    /\ email_to = <<>>
    /\ audio_segment = <<>>
    /\ today \in Days
    /\ pc = "idle"
    /\ rerun = FALSE
    /\ view = "none"
    /\ current_hash = None
    /\ calls = <<>>
    /\ msgs = {}
    /\ status = "running"
    /\ transcribed = {}
    /\ mailed = {}
    /\ last_run = [hash |-> None, kind |-> "none"]
    /\ failed = {}
    /\ secrets \in SUBSET Options
    /\ environ \in SUBSET Options
    /\ boot = "starting"
    /\ config = [o \in Options |-> None]

\* st.secrets[key] raises KeyError for a key it does not hold
SecretsRaise(held) == held # Options

\* int(os.getenv("BREVO_PORT")): int(None) raises TypeError
PortRaises(held) == "BREVO_PORT" \notin held

\* os.getenv(key): the value, or None for a variable that is not set
getenv(held, o) == IF o \in held THEN <<"env">> ELSE None

\* lines 37-43 and 238-242 of the first run: the login page
FirstRun ==
    /\ view' = "login"
    /\ status' = "completed"

\* lines 17-25: the try block
LoadSecrets ==
    /\ boot = "starting"
    /\ IF SecretsRaise(secrets)
       THEN /\ boot' = "fallback"
            /\ UNCHANGED <<config, view, status>>
       ELSE /\ boot' = "running"
            /\ config' = [o \in Options |-> <<"secret">>]
            /\ FirstRun
    /\ UNCHANGED <<session, widgets, today, pc, rerun, current_hash, calls,
                   msgs, history, secrets, environ>>

\* lines 26-35: the except block
LoadEnvironment ==
    /\ boot = "fallback"
    /\ IF PortRaises(environ)
       THEN /\ boot' = "crashed"
            /\ config' = [o \in Options |->
                            IF o \in {"OPENAI_API_KEY", "PASS_KEY",
                                      "BREVO_SERVER"}
                            THEN getenv(environ, o) ELSE None]
            /\ status' = "aborted"
            /\ UNCHANGED view
       ELSE /\ boot' = "running"
            /\ config' = [o \in Options |-> getenv(environ, o)]
            /\ FirstRun
    /\ UNCHANGED <<session, widgets, today, pc, rerun, current_hash, calls,
                   msgs, history, secrets, environ>>

NextConfig ==
    \/ LoadSecrets
    \/ LoadEnvironment

SpecConfig == InitConfig /\ [][NextConfig]_vars

\* ============================================================ claims
CountCalls(log, client) ==
    Cardinality({i \in DOMAIN log : log[i].client = client})

\* a processing run (one that issued the transcription request) has ended
ProcessingEnded == pc = "idle" /\ calls # <<>>

\* the script runs in this step
ScriptStep == pc = "run" /\ pc' # "run"

\* the capture widget holds nothing, or a clip of length 0
NoRecordingPresent == audio_segment = None \/ audio_segment = <<>>

\* a step that issues the transcription request, the mail
TranscriptionIssued == pc # "transcribe" /\ pc' = "transcribe"

MailIssued == pc # "send" /\ pc' = "send"

\* C1: over a whole session every distinct recording (fingerprint) is
\* transcribed at most once and its summary is mailed at most once: no
\* transcription request is issued for a fingerprint that already had one,
\* and no mail for a fingerprint that already had one.
C1_AtMostOncePerRecording ==
    [][/\ TranscriptionIssued => current_hash' \notin transcribed
       /\ MailIssued => current_hash \notin mailed]_vars

\* C2: a run that finds a recording whose fingerprint equals
\* last_audio_hash calls no client, asks for no rerun, and leaves
\* last_audio_hash, transcribed_text and summary_text as they were.
C2_SameFingerprintNoWork ==
    [][(ScriptStep /\ ~NoRecordingPresent
            /\ last_audio_hash = get_audio_hash(audio_segment))
        => (/\ pc' = "idle"
            /\ calls' = <<>>
            /\ ~rerun'
            /\ UNCHANGED <<last_audio_hash, transcribed_text, summary_text,
                           transcribed, mailed>>)]_vars

C2_Witness ==
    /\ pc = "idle"
    /\ view = "main"
    /\ status = "completed"
    /\ current_hash \in Hashes
    /\ last_audio_hash = current_hash
    /\ calls = <<>>
    /\ ~rerun

\* C3: a run for a recording whose fingerprint differs from last_audio_hash
\* calls transcription exactly once, summarization and mail at most once
\* each, and ends with last_audio_hash equal to the recording's fingerprint,
\* whatever the three stages did.
C3_NewFingerprintOnePass ==
    ProcessingEnded =>
        /\ CountCalls(calls, "transcription") = 1
        /\ CountCalls(calls, "summarization") <= 1
        /\ CountCalls(calls, "mail") <= 1
        /\ last_audio_hash = current_hash

\* the run's transcription returned text T and its summarization returned S
RunReturned(T, S) ==
    /\ Len(calls) >= 2
    /\ calls[1].ret = "ok" /\ calls[1].val = T
    /\ calls[2].ret = "ok" /\ calls[2].val = S

MailedExactly(S) ==
    /\ CountCalls(calls, "mail") = 1
    /\ Len(calls) = 3
    /\ calls[3].client = "mail"
    /\ calls[3].to = email_to
    /\ calls[3].subject = subject
    /\ calls[3].arg = S
    /\ calls[3].sender = BREVO_SENDER
    /\ calls[3].envelope_from = BREVO_SENDER

\* C4 as stated: transcription returned non-blank T, summarization returned
\* a non-empty S, and the address is non-empty; then the run mailed S exactly
\* once and ended with transcript T, summary S, the new hash and a rerun.
C4_NonEmptySummaryMailed ==
    \A T \in Texts, S \in Texts :
        (/\ ProcessingEnded
         /\ RunReturned(T, S)
         /\ strip(T) # <<>>
         /\ S # <<>>
         /\ email_to # <<>>)
        => (/\ MailedExactly(S)
            /\ transcribed_text = T
            /\ summary_text = S
            /\ last_audio_hash = current_hash
            /\ rerun)

\* C4 amended: the same with S non-blank (non-empty after strip()).
C4_NonBlankSummaryMailed ==
    \A T \in Texts, S \in Texts :
        (/\ ProcessingEnded
         /\ RunReturned(T, S)
         /\ strip(T) # <<>>
         /\ strip(S) # <<>>
         /\ email_to # <<>>)
        => (/\ MailedExactly(S)
            /\ transcribed_text = T
            /\ summary_text = S
            /\ last_audio_hash = current_hash
            /\ rerun)

C4_Witness ==
    /\ ProcessingEnded
    /\ Len(calls) = 3
    /\ calls[3].ret = "ok"
    /\ calls[3].arg = <<"a", " ">>
    /\ calls[1].val = <<" ", "a">>
    /\ email_to = <<"a">>
    /\ "mail_success" \in msgs

\* C5: when the transcription request raises, the run ends with empty
\* transcript and summary, calls neither summarization nor mail, stores the
\* new hash, and shows a warning.
C5_TranscriptionErrorHandled ==
    (calls # <<>> /\ calls[1].ret = "error")
        => (/\ pc \in {"idle", "run"}
            /\ Len(calls) = 1
            /\ transcribed_text = <<>>
            /\ summary_text = <<>>
            /\ last_audio_hash = current_hash
            /\ "warn_transcription_failed" \in msgs)

C5_Witness ==
    /\ ProcessingEnded
    /\ calls[1].ret = "error"
    /\ rerun
    /\ last_audio_hash \in Hashes

\* C6: when transcription returns an empty or whitespace-only text, the run
\* never calls summarization and the summary is empty.
C6_BlankTranscriptNotSummarized ==
    (calls # <<>> /\ calls[1].ret = "ok" /\ strip(calls[1].val) = <<>>)
        => (/\ CountCalls(calls, "summarization") = 0
            /\ summary_text = <<>>)

C6_Witness ==
    /\ ProcessingEnded
    /\ calls[1].ret = "ok"
    /\ calls[1].val = <<" ", " ">>
    /\ transcribed_text = <<" ", " ">>

\* C7: a run whose summary is non-empty while the address is empty never
\* calls mail; it shows the warning, ends normally and stores the new hash.
C7_NoAddressNoMail ==
    (ProcessingEnded /\ summary_text # <<>> /\ email_to = <<>>)
        => (/\ CountCalls(calls, "mail") = 0
            /\ "warn_mail_skipped" \in msgs
            /\ status = "completed"
            /\ last_audio_hash = current_hash)

C7_Witness ==
    /\ ProcessingEnded
    /\ summary_text = <<"a">>
    /\ email_to = <<>>
    /\ Len(calls) = 2

\* C8: whatever the three clients return or raise, no run is ended by an
\* uncaught error, and every processing run reaches the last_audio_hash
\* update.
C8_NoUncaughtError ==
    /\ status # "aborted"
    /\ "exception" \notin msgs
    /\ ProcessingEnded => (status = "completed" /\ last_audio_hash = current_hash)

\* C9 as stated: a run of the main view with no recording present calls no
\* client and leaves every session key as it was.
C9_NoRecordingNoChange ==
    [][(ScriptStep /\ password_correct /\ NoRecordingPresent)
        => (calls' = <<>> /\ UNCHANGED session)]_vars

\* C9 amended: such a run calls no client and leaves password_correct,
\* transcribed_text and summary_text as they were; last_audio_hash changes
\* only from absent to None, and processing_done is set to False unless the
\* run stopped at the expiration check.
C9_NoRecordingNoPipelineChange ==
    [][(ScriptStep /\ password_correct /\ NoRecordingPresent)
        => (/\ calls' = <<>>
            /\ pc' = "idle"
            /\ ~rerun'
            /\ UNCHANGED <<password_correct, transcribed_text, summary_text,
                           transcribed, mailed>>
            /\ last_audio_hash' \in
                 {last_audio_hash,
                  IF last_audio_hash = Absent THEN None ELSE last_audio_hash}
            /\ processing_done' \in {processing_done, <<"False">>})]_vars

C9_Witness ==
    /\ pc = "idle"
    /\ view = "main"
    /\ status = "completed"
    /\ NoRecordingPresent
    /\ current_hash = None
    /\ processing_done = <<"False">>
    /\ last_audio_hash \in Hashes
    /\ transcribed_text # <<>>

\* C10: password_correct becomes true only in a login run whose entered
\* password equals PASS_KEY; once true it stays true; a login run with a
\* different password shows the error, changes no session key and asks for
\* no rerun.
C10_LoginOnlyByPassword ==
    [][/\ (~password_correct /\ password_correct')
            => (pc = "run" /\ button /\ password = PASS_KEY /\ rerun')
       /\ password_correct => password_correct'
       /\ (ScriptStep /\ ~password_correct /\ button /\ password # PASS_KEY)
            => (/\ "password_error" \in msgs'
                /\ ~rerun'
                /\ UNCHANGED session)]_vars

C10_Witness ==
    /\ password_correct
    /\ view = "login"
    /\ rerun
    /\ password = PASS_KEY

\* C11 as stated: past the expiration date every run refuses use and stops,
\* whether the session is authenticated or not; no login page is shown and
\* no login is accepted.
C11_ExpiredHaltsEveryRun ==
    [][(ScriptStep /\ today > expiration_date)
        => (/\ view' = "expired"
            /\ status' = "stopped"
            /\ {"expired_error", "expired_info"} \subseteq msgs'
            /\ pc' = "idle"
            /\ calls' = <<>>
            /\ ~rerun'
            /\ UNCHANGED session)]_vars

\* C11 amended: past the expiration date every run of an authenticated
\* session shows the two expiration messages and stops before anything
\* else; a run of a session that is not authenticated shows the login page
\* as before the date and accepts a matching password, and calls no client.
C11_ExpiredHaltsAuthenticatedRun ==
    [][(ScriptStep /\ today > expiration_date)
        => (/\ pc' = "idle"
            /\ calls' = <<>>
            /\ UNCHANGED <<transcribed_text, summary_text, last_audio_hash,
                           processing_done, transcribed, mailed>>
            /\ IF password_correct
               THEN /\ view' = "expired"
                    /\ status' = "stopped"
                    /\ {"expired_error", "expired_info"} \subseteq msgs'
                    /\ ~rerun'
                    /\ password_correct'
               ELSE /\ view' = "login"
                    /\ msgs' \cap {"expired_error", "expired_info"} = {}
                    /\ password_correct' = (button /\ password = PASS_KEY))]_vars

C11_Witness ==
    /\ today > expiration_date
    /\ view = "expired"
    /\ status = "stopped"
    /\ password_correct
    /\ last_audio_hash \in Hashes
    /\ HasRecording(audio_segment)
    /\ last_audio_hash # get_audio_hash(audio_segment)

\* the run is blocked in one of its three client calls
InStage == pc \in {"transcribe", "summarize", "send"}

\* C14: a new recording's run clears transcribed_text and summary_text
\* before its first client call; throughout the run and at its end the two
\* keys and the mail body hold only what this run's own transcription and
\* summarization calls returned, or the empty text.
C14_NoStaleResults ==
    /\ pc = "transcribe"
        => (/\ transcribed_text = <<>>
            /\ summary_text = <<>>
            /\ Len(calls) = 1)
    /\ pc = "summarize"
        => (/\ transcribed_text = calls[1].val
            /\ summary_text = <<>>
            /\ calls[2].arg = calls[1].val)
    /\ pc = "send"
        => (/\ transcribed_text = calls[1].val
            /\ summary_text = calls[2].val
            /\ calls[3].arg = calls[2].val)
    /\ ProcessingEnded
        => (/\ transcribed_text \in {<<>>, calls[1].val}
            /\ summary_text \in
                 {<<>>} \cup (IF Len(calls) >= 2 THEN {calls[2].val} ELSE {})
            /\ \A i \in DOMAIN calls :
                 calls[i].client = "mail" => calls[i].arg = calls[2].val)

\* a second recording's run is waiting for its transcription while the
\* previous recording's summary has been mailed
C14_Witness ==
    /\ pc = "transcribe"
    /\ last_audio_hash \in Hashes
    /\ last_audio_hash # current_hash
    /\ last_audio_hash \in mailed
    /\ transcribed_text = <<>>
    /\ summary_text = <<>>

StageOrder == <<"transcription", "summarization", "mail">>

\* C15: last_audio_hash never equals the fingerprint of a recording whose
\* run is still in one of its calls; it holds only fingerprints that have
\* been through a run; a run that stored its hash has no call pending; and
\* the calls of a run are issued in the order transcription, summarization,
\* mail, each after the one before has returned.
C15_HashStoredAfterStages ==
    /\ InStage
        => (/\ last_audio_hash # current_hash
            /\ calls[Len(calls)].ret = "pending")
    /\ last_audio_hash \in Hashes => last_audio_hash \in transcribed
    /\ (calls # <<>> /\ last_audio_hash = current_hash)
        => \A i \in DOMAIN calls : calls[i].ret # "pending"
    /\ Len(calls) <= 3
    /\ \A i \in DOMAIN calls :
        /\ calls[i].client = StageOrder[i]
        /\ i < Len(calls) => calls[i].ret # "pending"

\* a run that went through all three calls has stored its hash
C15_Witness ==
    /\ ProcessingEnded
    /\ Len(calls) = 3
    /\ calls[3].ret = "error"
    /\ last_audio_hash = current_hash
    /\ last_audio_hash \in Hashes

\* the run that st.rerun() forced after a processing run is about to start
ForcedRunStarts == pc = "run" /\ calls # <<>> /\ status = "completed"

\* C16: every processing run ends by forcing one rerun, and the forced run
\* (same recording in the widget) calls no client, changes no result and
\* forces no further rerun, so the session comes to rest.
C16_OneForcedRerun ==
    [][/\ (InStage /\ pc' = "idle") => rerun'
       /\ (ForcedRunStarts /\ pc' # "run")
            => (/\ pc' = "idle"
                /\ calls' = <<>>
                /\ ~rerun'
                /\ UNCHANGED <<transcribed_text, summary_text,
                               last_audio_hash, transcribed, mailed>>)]_vars

\* C17: every step of a session whose password_correct is false leaves the
\* pipeline untouched: no client call, last_audio_hash still absent, the
\* login page shown; main_app runs only when the flag is already true.
C17_NoPipelineBeforeLogin ==
    [][~password_correct
        => (/\ pc' \in {"idle", "run"}
            /\ view' = "login"
            /\ calls' = <<>>
            /\ last_audio_hash = Absent
            /\ last_audio_hash' = Absent
            /\ transcribed = {} /\ mailed = {}
            /\ UNCHANGED <<transcribed_text, summary_text, processing_done,
                           transcribed, mailed>>)]_vars

C17_Witness ==
    /\ ~password_correct
    /\ pc = "idle"
    /\ "password_error" \in msgs
    /\ password = <<"x">>
    /\ last_audio_hash = Absent

\* C18: no mail call has an empty or whitespace-only body or an empty
\* address; a run whose summary is non-empty but whitespace-only sends
\* nothing and shows the warning.
C18_NoBlankMail ==
    /\ \A i \in DOMAIN calls :
        calls[i].client = "mail"
            => (/\ calls[i].arg # None
                /\ strip(calls[i].arg) # <<>>
                /\ calls[i].to # <<>>)
    /\ (ProcessingEnded /\ summary_text # None /\ summary_text # <<>>
            /\ strip(summary_text) = <<>>)
        => (/\ CountCalls(calls, "mail") = 0
            /\ "warn_mail_skipped" \in msgs
            /\ last_audio_hash = current_hash)

C18_Witness ==
    /\ ProcessingEnded
    /\ summary_text = <<" ", " ">>
    /\ email_to = <<"a">>
    /\ "warn_mail_skipped" \in msgs

\* a run of the main view that did no processing has ended
MainViewShown ==
    pc = "idle" /\ view = "main" /\ status = "completed" /\ calls = <<>>

\* C19: a run of the main view that does no processing shows the completion
\* notice exactly when last_audio_hash holds a fingerprint, whatever the
\* last processed recording's stages did and whether or not a recording is
\* present; the notice is never shown before a recording has been processed.
C19_NoticeIffHashStored ==
    /\ MainViewShown
        => ("done_notice" \in msgs <=> last_audio_hash \in Hashes)
    /\ "done_notice" \in msgs
        => (/\ transcribed # {}
            /\ view = "main")

\* the notice is shown although the widget is empty and the last processed
\* recording's transcription raised
C19_Witness ==
    /\ MainViewShown
    /\ "done_notice" \in msgs
    /\ NoRecordingPresent
    /\ transcribed_text = <<>>
    /\ mailed = {}

\* C13 as stated: once a run for a recording has failed or was left
\* incomplete (transcription, summarization or mail raised, or the mail was
\* skipped for want of an address), every later run that finds the same
\* recording in the widget calls no client.
C13_FailedRunNeverRetried ==
    [][(ScriptStep /\ ~NoRecordingPresent
            /\ get_audio_hash(audio_segment) \in failed)
        => (/\ pc' = "idle"
            /\ calls' = <<>>
            /\ UNCHANGED <<transcribed, mailed>>)]_vars

\* C13 amended: the same for every later run up to the next run that
\* processes another recording, that is, while the failed run is the
\* latest processing run; an address entered meanwhile changes nothing.
C13_FailedRunNotRetriedUntilOtherRecording ==
    [][(ScriptStep /\ ~NoRecordingPresent
            /\ last_run.kind \in FailedKinds
            /\ get_audio_hash(audio_segment) = last_run.hash)
        => (/\ pc' = "idle"
            /\ calls' = <<>>
            /\ ~rerun'
            /\ UNCHANGED <<transcribed_text, summary_text, last_audio_hash,
                           transcribed, mailed>>)]_vars

\* the mail was skipped for want of an address, the user has since entered
\* one, and the run that followed found the same recording and did nothing
C13_Witness ==
    /\ MainViewShown
    /\ last_run.kind = "send_skipped_no_address"
    /\ current_hash = last_run.hash
    /\ email_to = <<"a">>
    /\ summary_text = <<"a">>
    /\ mailed = {}

\* the options that neither st.secrets nor the environment holds
MissingOptions == {o \in Options : o \notin secrets /\ o \notin environ}

\* C12: when any of the seven options is missing from both st.secrets and
\* the environment, startup ends without reaching the login page or the
\* main view, whichever option it is.
C12_MissingOptionStopsStartup ==
    (boot \in {"running", "crashed"} /\ MissingOptions # {})
        => (/\ boot = "crashed"
            /\ view = "none"
            /\ status = "aborted")

====
